---- MODULE Spec2Model ----
(***************************************************************************)
(* A model of goxvid.c / goxvid.h, the C side of the cgo bridge to the     *)
(* xvid codec: three re-typed flag constants, the two extractors vop_data  *)
(* and vol_data that copy the frame-level or stream-level member of the    *)
(* decoder's statistics union into a flat record, and the callback         *)
(* trampoline pluginCallback_cgo.                                          *)
(*                                                                         *)
(* TLC's integers are 32 bits wide and signed.  An int of the program is   *)
(* a TLC integer in INT_MIN..INT_MAX; a 32-bit word of memory is written   *)
(* as the int that has its bit pattern; a pointer is the tuple of the      *)
(* words that hold it (one on ILP32, two on LP64, low word first); the     *)
(* value of a flag constant, which may lie beyond INT_MAX, is a sign and   *)
(* a magnitude in two 16-bit halves.                                       *)
(***************************************************************************)
EXTENDS Integers, Sequences, FiniteSets, TLC

VARIABLES
  abi,          \* the data model the bridge was built for: "ILP32" or "LP64"
  CPU_FORCE,    \* goxvid.c:3
  DEBUG_DEBUG,  \* goxvid.c:4
  CSP_VFLIP,    \* goxvid.c:5
  blob,         \* the xvid_dec_stats_t the caller passes: [type, data]
  decoded,      \* history: what the decoder last stored into blob
  qbuf,         \* the decoder's quantizer tables, one per buffer
  frame,        \* the vop_t the caller holds: <<>> or <<record>>
  frameSrc,     \* history: decoded when frame was extracted
  stream,       \* the vol_t the caller holds: <<>> or <<record>>
  streamSrc,    \* history: decoded when stream was extracted
  pc,           \* pluginCallback_cgo: "idle" or "dispatching"
  cgoFrame,     \* the parameters of the pluginCallback_cgo call in flight
  issued,       \* history: the events the native library issued, in order
  delivered,    \* history: the calls the host side received, in order
  handlerRets,  \* history: what each returned handler call returned
  returned      \* history: what each returned trampoline call returned

constVars == <<CPU_FORCE, DEBUG_DEBUG, CSP_VFLIP>>
statsVars == <<blob, decoded, qbuf, frame, frameSrc, stream, streamSrc>>
trampVars == <<pc, cgoFrame, issued, delivered, handlerRets, returned>>
vars == <<abi, constVars, statsVars, trampVars>>

----------------------------------------------------------------------------
(* Bounds *)

\* the decoder produces MaxSeed + 1 different frame outputs and as many
\* stream outputs
MaxSeed == 1
\* elements of one quantizer table
QLen == 2
\* the decoder fills a quantizer table in MaxFill + 1 different ways
MaxFill == 1
\* the native library issues MaxEvent + 1 different callback events
MaxEvent == 2
\* trampoline calls in one run
MaxCalls == 3
\* quantizer tables the decoder owns
NumBuffers == 2
\* the host handler returns -1 .. MaxRet
MaxRet == 1

----------------------------------------------------------------------------
(* C integers *)

INT_MIN == -2147483647 - 1
INT_MAX == -(INT_MIN + 1)

\* k |-> a different int for every small k, the extremes of int included
IntSample(k) ==
  CASE k % 4 = 0 -> k
    [] k % 4 = 1 -> -k
    [] k % 4 = 2 -> INT_MAX - (k - 2)
    [] OTHER     -> INT_MIN + (k - 3)

----------------------------------------------------------------------------
(* The layout of the statistics union *)

\* stats->data.vop, in declaration order (goxvid.c:8 names the members;
\* vop_t mirrors their order and types)
VopMembers ==
  << [name |-> "general",        type |-> "int"],
     [name |-> "time_base",      type |-> "int"],
     [name |-> "time_increment", type |-> "int"],
     [name |-> "qscale",         type |-> "ptr"],
     [name |-> "qscale_stride",  type |-> "int"] >>

\* stats->data.vol, in declaration order
VolMembers ==
  << [name |-> "general",    type |-> "int"],
     [name |-> "width",      type |-> "int"],
     [name |-> "height",     type |-> "int"],
     [name |-> "par",        type |-> "int"],
     [name |-> "par_width",  type |-> "int"],
     [name |-> "par_height", type |-> "int"] >>

\* size, and alignment, of a member in 32-bit words
SizeOfType(t) == IF t = "ptr" /\ abi = "LP64" THEN 2 ELSE 1

AlignUp(n, a) == ((n + a - 1) \div a) * a

RECURSIVE MemberOffset(_, _)
MemberOffset(members, i) ==
  IF i = 1 THEN 0
  ELSE AlignUp(MemberOffset(members, i - 1) + SizeOfType(members[i - 1].type),
               SizeOfType(members[i].type))

OffsetOf(members, name) ==
  MemberOffset(members, CHOOSE i \in 1..Len(members) : members[i].name = name)

\* the words a struct takes, up to the end of its last member
StructWords(members) ==
  MemberOffset(members, Len(members)) + SizeOfType(members[Len(members)].type)

\* the words of the union: the larger of its two members
DataWords ==
  0..((IF StructWords(VopMembers) > StructWords(VolMembers)
       THEN StructWords(VopMembers) ELSE StructWords(VolMembers)) - 1)

LoadInt(data, off) == data[off]

LoadPtr(data, off) ==
  IF abi = "LP64" THEN <<data[off], data[off + 1]>> ELSE <<data[off]>>

StoreInt(data, off, v) == [data EXCEPT ![off] = v]

StorePtr(data, off, p) ==
  IF abi = "LP64" THEN [data EXCEPT ![off] = p[1], ![off + 1] = p[2]]
  ELSE [data EXCEPT ![off] = p[1]]

\* a pointer to address n
Ptr(n) == IF abi = "LP64" THEN <<n, 0>> ELSE <<n>>

----------------------------------------------------------------------------
(* The flag constants *)

\* A mathematical integer of magnitude hi * 65536 + lo.
Num(neg, hi, lo) == [neg |-> neg, hi |-> hi, lo |-> lo]

\* 2^32 - (hi * 65536 + lo), for a magnitude in 1 .. 2^32 - 1
Complement32(n) ==
  IF n.lo = 0 THEN Num(FALSE, 65536 - n.hi, 0)
  ELSE Num(FALSE, 65535 - n.hi, 65536 - n.lo)

\* n * 2, n >= 0
Twice(n) == Num(FALSE, 2 * n.hi + ((2 * n.lo) \div 65536), (2 * n.lo) % 65536)

\* the value of an int expression whose mathematical value is n >= 0.  A
\* left shift into the sign bit is what gcc and clang, the compilers cgo
\* builds with, evaluate by keeping the low 32 bits; a build that kept the
\* value 2^31 instead would give the same constants, as ToUnsignedInt
\* leaves a value that is not negative as it is.
WrapInt(n) ==
  LET m == Num(FALSE, n.hi % 65536, n.lo)
  IN  IF m.hi >= 32768
      THEN [Complement32(m) EXCEPT !.neg = TRUE]
      ELSE m

RECURSIVE ShiftLeft(_, _)
ShiftLeft(n, k) == IF k = 0 THEN n ELSE ShiftLeft(Twice(n), k - 1)

\* xvid.h gives each of the three flags as the int expression (1<<31)
XVID_CPU_FORCE   == WrapInt(ShiftLeft(Num(FALSE, 0, 1), 31))
XVID_DEBUG_DEBUG == WrapInt(ShiftLeft(Num(FALSE, 0, 1), 31))
XVID_CSP_VFLIP   == WrapInt(ShiftLeft(Num(FALSE, 0, 1), 31))

\* the constants declared int: the value is kept, sign included
ToUnsignedInt_KeepsSign(n) == n

\* the conversion of an int to unsigned int: the value modulo 2^32
ToUnsignedInt(n) == IF n.neg THEN Complement32(n) ELSE n

ConstInit ==
  /\ CPU_FORCE   = ToUnsignedInt(XVID_CPU_FORCE)
  /\ DEBUG_DEBUG = ToUnsignedInt(XVID_DEBUG_DEBUG)
  /\ CSP_VFLIP   = ToUnsignedInt(XVID_CSP_VFLIP)

----------------------------------------------------------------------------
(* The decoder, which owns the statistics blob and the quantizer tables *)

Buffers == 0..(NumBuffers - 1)

BufferAddr(b) == Ptr(4096 * (b + 1))

\* the p-th way the decoder fills a quantizer table (quantizers are 1..31)
QuantTable(p) == [i \in 1..QLen |-> 1 + ((p + i) % 31)]

ZeroVop ==
  [general |-> 0, time_base |-> 0, time_increment |-> 0,
   qscale |-> Ptr(0), qscale_stride |-> 0]

ZeroVol ==
  [general |-> 0, width |-> 0, height |-> 0,
   par |-> 0, par_width |-> 0, par_height |-> 0]

\* the s-th frame-level output of the decoder
VopOutput(s) ==
  [general        |-> IntSample(5 * s + 2),
   time_base      |-> IntSample(5 * s + 3),
   time_increment |-> IntSample(5 * s + 1),
   qscale         |-> BufferAddr(s % NumBuffers),
   qscale_stride  |-> IntSample(5 * s + 4)]

\* the s-th stream-level output of the decoder
VolOutput(s) ==
  [general    |-> IntSample(100 + 6 * s),
   width      |-> IntSample(101 + 6 * s),
   height     |-> IntSample(102 + 6 * s),
   par        |-> IntSample(103 + 6 * s),
   par_width  |-> IntSample(104 + 6 * s),
   par_height |-> IntSample(105 + 6 * s)]

\* the decoder stores a frame-level result member by member
StoreVop(data, v) ==
  LET d1 == StoreInt(data, OffsetOf(VopMembers, "general"), v.general)
      d2 == StoreInt(d1, OffsetOf(VopMembers, "time_base"), v.time_base)
      d3 == StoreInt(d2, OffsetOf(VopMembers, "time_increment"), v.time_increment)
      d4 == StorePtr(d3, OffsetOf(VopMembers, "qscale"), v.qscale)
  IN  StoreInt(d4, OffsetOf(VopMembers, "qscale_stride"), v.qscale_stride)

\* the decoder stores a stream-level result member by member
StoreVol(data, v) ==
  LET d1 == StoreInt(data, OffsetOf(VolMembers, "general"), v.general)
      d2 == StoreInt(d1, OffsetOf(VolMembers, "width"), v.width)
      d3 == StoreInt(d2, OffsetOf(VolMembers, "height"), v.height)
      d4 == StoreInt(d3, OffsetOf(VolMembers, "par"), v.par)
      d5 == StoreInt(d4, OffsetOf(VolMembers, "par_width"), v.par_width)
  IN  StoreInt(d5, OffsetOf(VolMembers, "par_height"), v.par_height)

StatsInit ==
  /\ blob = [type |-> "nothing", data |-> [w \in DataWords |-> 0]]
  /\ decoded = [kind |-> "nothing", vop |-> ZeroVop, vol |-> ZeroVol]
  /\ qbuf = [b \in Buffers |-> QuantTable(0)]
  /\ frame = <<>>
  /\ frameSrc = decoded
  /\ stream = <<>>
  /\ streamSrc = decoded

\* xvid_decore reports a decoded frame
DecodeFrame(s) ==
  /\ blob' = [type |-> "vop", data |-> StoreVop(blob.data, VopOutput(s))]
  /\ decoded' = [kind |-> "vop", vop |-> VopOutput(s), vol |-> ZeroVol]
  /\ UNCHANGED <<qbuf, frame, frameSrc, stream, streamSrc>>
  /\ UNCHANGED <<abi, constVars, trampVars>>

\* xvid_decore reports a stream header
DecodeStream(s) ==
  /\ blob' = [type |-> "vol", data |-> StoreVol(blob.data, VolOutput(s))]
  /\ decoded' = [kind |-> "vol", vop |-> ZeroVop, vol |-> VolOutput(s)]
  /\ UNCHANGED <<qbuf, frame, frameSrc, stream, streamSrc>>
  /\ UNCHANGED <<abi, constVars, trampVars>>

\* the decoder refills one of its quantizer tables
FillQuantTable(b, p) ==
  /\ qbuf[b] # QuantTable(p)
  /\ qbuf' = [qbuf EXCEPT ![b] = QuantTable(p)]
  /\ UNCHANGED <<blob, decoded, frame, frameSrc, stream, streamSrc>>
  /\ UNCHANGED <<abi, constVars, trampVars>>

----------------------------------------------------------------------------
(* The extractors *)

\* vop_data with time_base and time_increment taken from each other's member
vop_data_Swapped(stats) ==
  [general        |-> LoadInt(stats.data, OffsetOf(VopMembers, "general")),
   time_base      |-> LoadInt(stats.data, OffsetOf(VopMembers, "time_increment")),
   time_increment |-> LoadInt(stats.data, OffsetOf(VopMembers, "time_base")),
   qscale         |-> LoadPtr(stats.data, OffsetOf(VopMembers, "qscale")),
   qscale_stride  |-> LoadInt(stats.data, OffsetOf(VopMembers, "qscale_stride"))]

\* vop_data that reads the blob's type and returns a zero record for a blob
\* that holds no frame-level data
vop_data_TagChecked(stats) ==
  IF stats.type = "vop"
  THEN [general        |-> LoadInt(stats.data, OffsetOf(VopMembers, "general")),
        time_base      |-> LoadInt(stats.data, OffsetOf(VopMembers, "time_base")),
        time_increment |-> LoadInt(stats.data, OffsetOf(VopMembers, "time_increment")),
        qscale         |-> LoadPtr(stats.data, OffsetOf(VopMembers, "qscale")),
        qscale_stride  |-> LoadInt(stats.data, OffsetOf(VopMembers, "qscale_stride"))]
  ELSE ZeroVop

vop_data(stats) ==
  [general        |-> LoadInt(stats.data, OffsetOf(VopMembers, "general")),
   time_base      |-> LoadInt(stats.data, OffsetOf(VopMembers, "time_base")),
   time_increment |-> LoadInt(stats.data, OffsetOf(VopMembers, "time_increment")),
   qscale         |-> LoadPtr(stats.data, OffsetOf(VopMembers, "qscale")),
   qscale_stride  |-> LoadInt(stats.data, OffsetOf(VopMembers, "qscale_stride"))]

\* vol_data with par_width and par_height taken from each other's member
vol_data_Swapped(stats) ==
  [general    |-> LoadInt(stats.data, OffsetOf(VolMembers, "general")),
   width      |-> LoadInt(stats.data, OffsetOf(VolMembers, "width")),
   height     |-> LoadInt(stats.data, OffsetOf(VolMembers, "height")),
   par        |-> LoadInt(stats.data, OffsetOf(VolMembers, "par")),
   par_width  |-> LoadInt(stats.data, OffsetOf(VolMembers, "par_height")),
   par_height |-> LoadInt(stats.data, OffsetOf(VolMembers, "par_width"))]

vol_data(stats) ==
  [general    |-> LoadInt(stats.data, OffsetOf(VolMembers, "general")),
   width      |-> LoadInt(stats.data, OffsetOf(VolMembers, "width")),
   height     |-> LoadInt(stats.data, OffsetOf(VolMembers, "height")),
   par        |-> LoadInt(stats.data, OffsetOf(VolMembers, "par")),
   par_width  |-> LoadInt(stats.data, OffsetOf(VolMembers, "par_width")),
   par_height |-> LoadInt(stats.data, OffsetOf(VolMembers, "par_height"))]

\* vop_data that clears the qscale member of the blob once it has read it
VopDataCall_ClearsQscale ==
  /\ frame' = <<vop_data(blob)>>
  /\ frameSrc' = decoded
  /\ blob' = [blob EXCEPT !.data =
                 StorePtr(blob.data, OffsetOf(VopMembers, "qscale"), Ptr(0))]
  /\ UNCHANGED <<decoded, qbuf, stream, streamSrc>>
  /\ UNCHANGED <<abi, constVars, trampVars>>

\* the caller calls vop_data(&blob) and keeps the vop_t it returns
VopDataCall ==
  /\ frame' = <<vop_data(blob)>>
  /\ frameSrc' = decoded
  /\ UNCHANGED <<blob, decoded, qbuf, stream, streamSrc>>
  /\ UNCHANGED <<abi, constVars, trampVars>>

\* the caller calls vol_data(&blob) and keeps the vol_t it returns
VolDataCall ==
  /\ stream' = <<vol_data(blob)>>
  /\ streamSrc' = decoded
  /\ UNCHANGED <<blob, decoded, qbuf, frame, frameSrc>>
  /\ UNCHANGED <<abi, constVars, trampVars>>

\* what a holder of pointer p sees through it: the decoder's table at that
\* address, or nothing when p is not the address of one
Deref(p) ==
  IF \E b \in Buffers : BufferAddr(b) = p
  THEN <<qbuf[CHOOSE b \in Buffers : BufferAddr(b) = p]>>
  ELSE <<>>

----------------------------------------------------------------------------
(* The callback trampoline *)

\* the s-th event the native library issues; event 0 is (0x1, 7, NULL, NULL)
CallbackEvent(s) ==
  [handle |-> Ptr(1 + s), opt |-> 7 + s,
   param1 |-> Ptr(256 * s), param2 |-> Ptr(512 * s)]

RetVals == (-1)..MaxRet

\* a target that is installed again after the first call
Callee_Rebound ==
  IF Len(delivered) = 0 THEN "pluginCallback" ELSE "pluginCallback2"

\* the function the trampoline calls
Callee == "pluginCallback"

\* the call with param1 and param2 in each other's place
ForwardedArgs_Swapped(handle, opt, param1, param2) ==
  <<handle, opt, param2, param1>>

\* the argument list of the call at goxvid.c:17
ForwardedArgs(handle, opt, param1, param2) == <<handle, opt, param1, param2>>

\* what the trampoline returns when the call at goxvid.c:17 returned r
TrampolineResult(r) == r

TrampInit ==
  /\ pc = "idle"
  /\ cgoFrame = <<>>
  /\ issued = <<>>
  /\ delivered = <<>>
  /\ handlerRets = <<>>
  /\ returned = <<>>

\* a trampoline that takes the event and does not call the handler
CgoEnter_Dropped(s) ==
  LET ev == CallbackEvent(s) IN
  /\ pc = "idle"
  /\ Len(issued) < MaxCalls
  /\ pc' = "dispatching"
  /\ cgoFrame' = <<ev>>
  /\ issued' = Append(issued, ev)
  /\ UNCHANGED <<delivered, handlerRets, returned>>
  /\ UNCHANGED <<abi, constVars, statsVars>>

\* the native library calls pluginCallback_cgo, which calls pluginCallback
CgoEnter(s) ==
  LET ev == CallbackEvent(s) IN
  /\ pc = "idle"
  /\ Len(issued) < MaxCalls
  /\ pc' = "dispatching"
  /\ cgoFrame' = <<ev>>
  /\ issued' = Append(issued, ev)
  /\ delivered' = Append(delivered,
       [callee |-> Callee,
        args |-> ForwardedArgs(ev.handle, ev.opt, ev.param1, ev.param2)])
  /\ UNCHANGED <<handlerRets, returned>>
  /\ UNCHANGED <<abi, constVars, statsVars>>

\* a trampoline that keeps its last parameters in a static object
CgoReturn_KeepsFrame(r) ==
  /\ pc = "dispatching"
  /\ pc' = "idle"
  /\ handlerRets' = Append(handlerRets, r)
  /\ returned' = Append(returned, TrampolineResult(r))
  /\ UNCHANGED <<cgoFrame, issued, delivered>>
  /\ UNCHANGED <<abi, constVars, statsVars>>

\* pluginCallback returns r and pluginCallback_cgo returns
CgoReturn(r) ==
  /\ pc = "dispatching"
  /\ pc' = "idle"
  /\ cgoFrame' = <<>>
  /\ handlerRets' = Append(handlerRets, r)
  /\ returned' = Append(returned, TrampolineResult(r))
  /\ UNCHANGED <<issued, delivered>>
  /\ UNCHANGED <<abi, constVars, statsVars>>

----------------------------------------------------------------------------
(* Specifications *)

Init ==
  /\ abi \in {"ILP32", "LP64"}
  /\ ConstInit
  /\ StatsInit
  /\ TrampInit

StatsNext ==
  \/ \E s \in 0..MaxSeed : DecodeFrame(s)
  \/ \E s \in 0..MaxSeed : DecodeStream(s)
  \/ \E b \in Buffers, p \in 0..MaxFill : FillQuantTable(b, p)
  \/ VopDataCall
  \/ VolDataCall

TrampNext ==
  \/ \E s \in 0..MaxEvent : CgoEnter(s)
  \/ \E r \in RetVals : CgoReturn(r)

Next == StatsNext \/ TrampNext

\* the whole bridge
Spec == Init /\ [][Next]_vars

\* the decoder and the extractors alone
SpecStats == Init /\ [][StatsNext]_vars

\* the trampoline alone
SpecTramp == Init /\ [][TrampNext]_vars

----------------------------------------------------------------------------
(* The trampoline's properties *)

\* C1: every trampoline call has called the handler exactly once, with the
\* call's handle, opt, param1 and param2 in that order, and every trampoline
\* call that returned has returned the integer its handler call returned.
C1_PassThrough ==
  /\ Len(delivered) = Len(issued)
  /\ Len(returned) = Len(handlerRets)
  /\ \A i \in 1..Len(issued) :
        /\ i <= Len(delivered)
        /\ delivered[i].args =
             <<issued[i].handle, issued[i].opt, issued[i].param1, issued[i].param2>>
  /\ \A i \in 1..Len(returned) :
        i <= Len(handlerRets) /\ returned[i] = handlerRets[i]

\* a call with two different pointer parameters has returned the handler's -1
C1_Witness ==
  /\ Len(returned) >= 1
  /\ returned[1] = -1
  /\ issued[1].param1 # issued[1].param2
  /\ issued[1].handle # issued[1].param1

\* C6: every call the trampoline has made went to one and the same target,
\* pluginCallback; no step of the bridge makes a later call go elsewhere.
C6_SingleTarget ==
  /\ \A i \in 1..Len(delivered) : delivered[i].callee = "pluginCallback"
  /\ \A i, j \in 1..Len(delivered) : delivered[i].callee = delivered[j].callee

\* MaxCalls calls have been dispatched, for at least two different events
C6_Witness ==
  /\ Len(delivered) = MaxCalls
  /\ delivered[1].args # delivered[MaxCalls].args

\* C9: the trampoline is idle or dispatching; it is dispatching exactly
\* while a handler call is in flight (one more call delivered than handler
\* calls returned), a call whose handler returned has returned and left the
\* trampoline idle, and an idle trampoline holds nothing of a past call.
C9_TwoStates ==
  /\ pc \in {"idle", "dispatching"}
  /\ pc = "dispatching" <=> Len(delivered) = Len(handlerRets) + 1
  /\ pc = "idle" <=> Len(delivered) = Len(handlerRets)
  /\ Len(returned) = Len(handlerRets)
  /\ pc = "dispatching" => cgoFrame = <<issued[Len(issued)]>>
  /\ pc = "idle" => cgoFrame = <<>>

\* the trampoline is idle again after two calls whose handlers returned
C9_Witness ==
  /\ pc = "idle"
  /\ Len(handlerRets) = 2
  /\ Len(delivered) = 2

\* C10: the handler has received exactly the events the native library
\* issued, in the order issued, none missing, repeated or waiting; every
\* event is delivered before the trampoline call that carries it returns.
C10_InOrder ==
  /\ [i \in 1..Len(delivered) |->
        [handle |-> delivered[i].args[1], opt |-> delivered[i].args[2],
         param1 |-> delivered[i].args[3], param2 |-> delivered[i].args[4]]]
       = issued
  /\ Len(returned) <= Len(delivered)
  /\ Len(delivered) <= Len(returned) + 1

\* three calls have returned, the first two for different events, the third
\* for the first event again
C10_Witness ==
  /\ Len(returned) = 3
  /\ issued[1] # issued[2]
  /\ issued[3] = issued[1]
  /\ pc = "idle"

----------------------------------------------------------------------------
(* The constants' property *)

\* C4: each of the three constants reads as 2147483648 = 32768 * 65536: not
\* negative and within unsigned int; it does so in every state of a run.
C4_Constants ==
  /\ CPU_FORCE   = Num(FALSE, 32768, 0)
  /\ DEBUG_DEBUG = Num(FALSE, 32768, 0)
  /\ CSP_VFLIP   = Num(FALSE, 32768, 0)

\* the constants read late in a run, after MaxCalls callbacks, and the
\* literal they are made from is the negative int with the same bits
C4_Witness ==
  /\ Len(returned) = MaxCalls
  /\ XVID_CPU_FORCE = Num(TRUE, 32768, 0)
  /\ CPU_FORCE.hi = 32768
  /\ ~CPU_FORCE.neg

----------------------------------------------------------------------------
(* The extractors' properties *)

\* C2: a vop_t extracted from a blob in which the decoder had stored a
\* frame-level result has that result's general, time_base, time_increment
\* and qscale_stride, and its qscale is the address of the decoder's own
\* quantizer table: what is seen through it is that table, not a copy.
C2_FrameRecord ==
  (frame # <<>> /\ frameSrc.kind = "vop") =>
    /\ frame[1].general = frameSrc.vop.general
    /\ frame[1].time_base = frameSrc.vop.time_base
    /\ frame[1].time_increment = frameSrc.vop.time_increment
    /\ frame[1].qscale_stride = frameSrc.vop.qscale_stride
    /\ frame[1].qscale = frameSrc.vop.qscale
    /\ \E b \in Buffers :
         /\ frame[1].qscale = BufferAddr(b)
         /\ Deref(frame[1].qscale) = <<qbuf[b]>>

\* a frame record with general = INT_MAX and time_base = INT_MIN was
\* extracted from the frame-level blob that is still there
C2_Witness ==
  /\ frame # <<>>
  /\ frameSrc.kind = "vop"
  /\ decoded = frameSrc
  /\ frame[1].general = INT_MAX
  /\ frame[1].time_base = INT_MIN
  /\ frame[1].time_increment = -1

\* C3: a vol_t extracted from a blob in which the decoder had stored a
\* stream-level result has that result's general, width, height, par,
\* par_width and par_height, each in its own field.
C3_StreamRecord ==
  (stream # <<>> /\ streamSrc.kind = "vol") =>
    /\ stream[1].general = streamSrc.vol.general
    /\ stream[1].width = streamSrc.vol.width
    /\ stream[1].height = streamSrc.vol.height
    /\ stream[1].par = streamSrc.vol.par
    /\ stream[1].par_width = streamSrc.vol.par_width
    /\ stream[1].par_height = streamSrc.vol.par_height

\* a stream record of six different values was extracted from the
\* stream-level blob that is still there
C3_Witness ==
  /\ stream # <<>>
  /\ streamSrc.kind = "vol"
  /\ decoded = streamSrc
  /\ Cardinality({stream[1].general, stream[1].width, stream[1].height,
                   stream[1].par, stream[1].par_width, stream[1].par_height}) = 6

\* C7: a step that changes the blob or a quantizer table (the decoder
\* storing a new result, of the same or of the other kind) leaves the
\* records the caller holds as they are, the qscale address included; what
\* is seen through a held frame record's qscale is the decoder's table as it
\* is after the step; a step that extracts a record leaves the blob and the
\* tables as they are.
C7_ByValue ==
  [][ /\ (blob' # blob \/ qbuf' # qbuf) =>
           (frame' = frame /\ stream' = stream)
      /\ \A b \in Buffers :
           (frame # <<>> /\ frame[1].qscale = BufferAddr(b) /\ qbuf'[b] # qbuf[b]) =>
             /\ Deref(frame[1].qscale)' = <<qbuf'[b]>>
             /\ Deref(frame[1].qscale)' # Deref(frame[1].qscale)
      /\ (frame' # frame \/ frameSrc' # frameSrc
             \/ stream' # stream \/ streamSrc' # streamSrc) =>
           (blob' = blob /\ qbuf' = qbuf)
    ]_vars

\* the caller holds a frame record and a stream record, the blob has since
\* switched from frame-level to stream-level data and on to another stream
\* result, and the table behind the frame record's qscale was refilled
C7_Witness ==
  /\ frame # <<>>
  /\ stream # <<>>
  /\ frameSrc.kind = "vop"
  /\ streamSrc.kind = "vol"
  /\ decoded.kind = "vol"
  /\ decoded # streamSrc
  /\ frame[1].general = frameSrc.vop.general
  /\ \E b \in Buffers : frame[1].qscale = BufferAddr(b) /\ qbuf[b] # QuantTable(0)

\* C8: vop_data on a blob that holds a stream-level result, and vol_data on
\* a blob that holds a frame-level result, return a record all the same, and
\* the record holds what lies at the requested members' places: the three
\* leading ints of the other kind's result, then, by the data model, its
\* words at the places of the remaining members.
C8_NoTagCheck ==
  /\ (frame # <<>> /\ frameSrc.kind = "vol") =>
        /\ frame[1].general = frameSrc.vol.general
        /\ frame[1].time_base = frameSrc.vol.width
        /\ frame[1].time_increment = frameSrc.vol.height
        /\ abi = "ILP32" =>
              /\ frame[1].qscale = <<frameSrc.vol.par>>
              /\ frame[1].qscale_stride = frameSrc.vol.par_width
        /\ abi = "LP64" =>
              frame[1].qscale = <<frameSrc.vol.par_width, frameSrc.vol.par_height>>
  /\ (stream # <<>> /\ streamSrc.kind = "vop") =>
        /\ stream[1].general = streamSrc.vop.general
        /\ stream[1].width = streamSrc.vop.time_base
        /\ stream[1].height = streamSrc.vop.time_increment
        /\ abi = "ILP32" =>
              /\ <<stream[1].par>> = streamSrc.vop.qscale
              /\ stream[1].par_width = streamSrc.vop.qscale_stride
        /\ abi = "LP64" =>
              <<stream[1].par_width, stream[1].par_height>> = streamSrc.vop.qscale

\* vop_data was called on a stream-level blob and returned a record whose
\* general is not zero, and vol_data was called on a frame-level blob
C8_Witness ==
  /\ frame # <<>>
  /\ frameSrc.kind = "vol"
  /\ frame[1].general # 0
  /\ frame[1].time_base = frameSrc.vol.width
  /\ stream # <<>>
  /\ streamSrc.kind = "vop"

====
